---------------------------- MODULE Spec2Model ----------------------------
(***************************************************************************)
(* A model of PackingApp (src/src/travel-packing-app.tsx, the component    *)
(* defined at lines 632-1238): the trip duration, the weather analysis,    *)
(* the item rules and the merge step of generatePackingList, and the       *)
(* event handlers of the four-step wizard around them.                     *)
(*                                                                         *)
(* Representation.                                                         *)
(*   - Strings are TLA+ strings; `${a}-${b}` is a \o "-" \o b, and         *)
(*     String.includes / toLowerCase are computed character by character.  *)
(*   - A date string "YYYY-MM-DD" is the number of its day counted from a  *)
(*     reference day; new Date(dateString) is UTC midnight of that day.    *)
(*   - Date.getTimezoneOffset is the environment: a time zone gives the    *)
(*     offset (minutes, UTC minus local time) of every instant.            *)
(*   - A JavaScript number that is a quotient of integers is kept exact,   *)
(*     as numerator and denominator; 0/0 is NaN.                           *)
(***************************************************************************)
EXTENDS Integers, Sequences, FiniteSets, TLC

VARIABLES
    startDate,    \* useState startDate: the day number of the date string
    endDate,      \* useState endDate
    tz,           \* the browser's time zone (what getTimezoneOffset reads)
    activities,   \* useState activities: a sequence of strings
    weatherData,  \* useState weatherData: NoData or Loaded(sequence of WeatherDay)
    packingList,  \* useState packingList: a sequence of PackingItem
    tripDays,     \* generatePackingList's local tripDays
    weather,      \* generatePackingList's local weather (analyzeWeather's result)
    items,        \* generatePackingList's local items (the unmerged stream)
    pc,           \* the position of the computation under check
    currentStep,  \* useState currentStep
    destination,  \* useState destination
    newActivity,  \* useState newActivity
    thrown,       \* the exception the last event handler ended with, or "none"
    generations,  \* history: the number of generatePackingList calls so far
    suggestions,      \* useState suggestions: a sequence of place names
    showSuggestions,  \* useState showSuggestions
    searchLoading,    \* useState searchLoading
    timeoutRef,       \* the pending timer of timeoutRef.current, or NoTimer
    searches,         \* the city searches in flight, in the order they began
    typed             \* history: the text of the last destination edit

\* the state of the city search
searchVars == <<suggestions, showSuggestions, searchLoading, timeoutRef,
                searches, typed>>

\* the state of the wizard that the packing-list core does not read
wizardVars == <<currentStep, destination, newActivity, thrown, generations,
                searchVars>>

vars == <<startDate, endDate, tz, activities, weatherData, packingList,
          tripDays, weather, items, pc, currentStep, destination,
          newActivity, thrown, generations, suggestions, showSuggestions,
          searchLoading, timeoutRef, searches, typed>>

-----------------------------------------------------------------------------
(* Bounds of the model                                                     *)

\* dates are the days 0..MaxDay
MaxDay == 10
\* the merge step is given at most MaxItems items
MaxItems == 3
\* with quantities 1..MaxQty
MaxQty == 2
\* a forecast has at most MaxForecastLen days
MaxForecastLen == 2
\* a trip has at most MaxActivities activities
MaxActivities == 2

-----------------------------------------------------------------------------
(* Helpers                                                                 *)

\* the value of a local that is not yet assigned
Null == "null"

\* timeoutRef.current with no timer pending
NoTimer == "none"

\* WeatherDay[] | null: null is the empty sequence, and the array a is <<a>>
NoData == <<>>

Loaded(a) == <<a>>

BoundedSeq(S, n) == UNION {[1..k -> S] : k \in 0..n}

Max(a, b) == IF a >= b THEN a ELSE b

Min(a, b) == IF a <= b THEN a ELSE b

\* Math.floor(a / b) and Math.ceil(a / b) for integers a and b > 0
FloorDiv(a, b) == a \div b

CeilDiv(a, b) == -((-a) \div b)

\* String.prototype.includes
Includes(s, sub) ==
    \E i \in 1..(Len(s) - Len(sub) + 1) : SubSeq(s, i, i + Len(sub) - 1) = sub

UpperCase == "ABCDEFGHIJKLMNOPQRSTUVWXYZ"

LowerCase == "abcdefghijklmnopqrstuvwxyz"

LowerChar(c) ==
    IF \E i \in 1..Len(UpperCase) : SubSeq(UpperCase, i, i) = c
    THEN LET i == CHOOSE k \in 1..Len(UpperCase) : SubSeq(UpperCase, k, k) = c
         IN  SubSeq(LowerCase, i, i)
    ELSE c

\* String.prototype.toLowerCase, on the characters A-Z
RECURSIVE LowerPrefix(_, _)
LowerPrefix(s, n) ==
    IF n = 0 THEN ""
    ELSE LowerPrefix(s, n - 1) \o LowerChar(SubSeq(s, n, n))

ToLowerCase(s) == LowerPrefix(s, Len(s))

-----------------------------------------------------------------------------
(* The merge step: the itemMap loop that ends generatePackingList          *)

\* const key = `${item.name}-${item.category}`
ItemKey(item) == item.name \o "-" \o item.category

\* One iteration of items.forEach over the Map, kept as the sequence of its
\* entries [key, value] in insertion order.
MergeInto(itemMap, item) ==
    LET key == ItemKey(item)
        has == {i \in 1..Len(itemMap) : itemMap[i].key = key}
    IN  IF has # {}
        THEN LET existingItem == CHOOSE i \in has : TRUE
             IN  [itemMap EXCEPT
                     ![existingItem].value.quantity = Max(@, item.quantity)]
        ELSE Append(itemMap, [key |-> key, value |-> item])

\* items.forEach over the items its[loop.lo .. loop.hi], in order, starting
\* from the Map loop.itemMap: the range is walked as its lower half followed
\* by its upper half, which keeps the evaluation shallow.
RECURSIVE ForEachInto(_, _)
ForEachInto(its, loop) ==
    IF loop.lo > loop.hi THEN loop.itemMap
    ELSE IF loop.lo = loop.hi THEN MergeInto(loop.itemMap, its[loop.lo])
    ELSE LET mid == (loop.lo + loop.hi) \div 2
         IN  ForEachInto(its,
                 [itemMap |-> ForEachInto(its, [loop EXCEPT !.hi = mid]),
                  lo      |-> mid + 1,
                  hi      |-> loop.hi])

\* itemMap after items.forEach
ItemMapOf(its) ==
    ForEachInto(its, [itemMap |-> <<>>, lo |-> 1, hi |-> Len(its)])

\* a merge that pushes every item and never looks the key up
MergeNoLookup(its) == its

\* a merge that hands the values back in reverse insertion order
MergeReversed(its) ==
    LET m == ItemMapOf(its)
    IN  [i \in 1..Len(m) |-> m[Len(m) + 1 - i].value]

\* Array.from(itemMap.values())
Merge(its) ==
    LET m == ItemMapOf(its)
    IN  [i \in 1..Len(m) |-> m[i].value]

-----------------------------------------------------------------------------
(* The trip duration                                                       *)

MsPerMinute == 60000

\* (1000 * 60 * 60 * 24)
MsPerDay == 1000 * 60 * 60 * 24

\* new Date(dateString).getTime(): a date-only string is UTC midnight
ParseDate(dateString) == dateString * MsPerDay

\* Date.prototype.getTimezoneOffset at the instant t (milliseconds): a zone
\* has the offset zone.before until the instant zone.at and zone.after from
\* then on (a daylight-saving change; before = after in a zone without one).
GetTimezoneOffset(zone, t) == IF t < zone.at THEN zone.before ELSE zone.after

\* getLocalDate(dateString).getTime()
GetLocalDate(dateString, zone) ==
    LET date == ParseDate(dateString)
    IN  date + GetTimezoneOffset(zone, date) * MsPerMinute

\* the day count without the "+ 1" that makes it inclusive
TripDaysExclusive(start, end, zone) ==
    FloorDiv(GetLocalDate(end, zone) - GetLocalDate(start, zone), MsPerDay)

\* Math.floor((end.getTime() - start.getTime()) / (1000 * 60 * 60 * 24)) + 1
TripDays(start, end, zone) ==
    FloorDiv(GetLocalDate(end, zone) - GetLocalDate(start, zone), MsPerDay) + 1

-----------------------------------------------------------------------------
(* analyzeWeather                                                          *)

RECURSIVE SumHigh(_)
SumHigh(wd) == IF wd = <<>> THEN 0 ELSE wd[1].high + SumHigh(Tail(wd))

RECURSIVE SumLow(_)
SumLow(wd) == IF wd = <<>> THEN 0 ELSE wd[1].low + SumLow(Tail(wd))

\* Math.max(...weatherData.map(day => day.high)), of a non-empty forecast
MaxHigh(wd) == CHOOSE h \in {wd[i].high : i \in 1..Len(wd)} :
                   \A i \in 1..Len(wd) : wd[i].high <= h

\* Math.min(...weatherData.map(day => day.low)), of a non-empty forecast
MinLow(wd) == CHOOSE l \in {wd[i].low : i \in 1..Len(wd)} :
                  \A i \in 1..Len(wd) : wd[i].low >= l

\* Comparisons of the number q.num / q.den with the integer n. The quotient
\* of an empty forecast is 0 / 0 = NaN, and every comparison with NaN is
\* false. (For the sums and lengths of a forecast the double q.num / q.den
\* compares with n as the exact quotient does.)
Gt(q, n) == q.den > 0 /\ q.num > n * q.den

Ge(q, n) == q.den > 0 /\ q.num >= n * q.den

Lt(q, n) == q.den > 0 /\ q.num < n * q.den

Le(q, n) == q.den > 0 /\ q.num <= n * q.den

\* day.conditions.includes('rain'): a match of the lower-case word
RainLowerCase(day) == Includes(day.conditions, "rain")

\* day.conditions.includes('Rain')
IsRainDay(day) == Includes(day.conditions, "Rain")

\* the bands with isHot: avgHigh >= 80 and isCold: avgLow <= 40
AnalyzeWeatherInclusive(wd) ==
    LET avgHigh == [num |-> SumHigh(wd), den |-> Len(wd)]
        avgLow  == [num |-> SumLow(wd), den |-> Len(wd)]
        tempVariation ==
            IF wd = <<>> THEN [finite |-> FALSE, value |-> 0]
            ELSE [finite |-> TRUE, value |-> MaxHigh(wd) - MinLow(wd)]
    IN  [avgHigh       |-> avgHigh,
         avgLow        |-> avgLow,
         hasRain       |-> \E i \in 1..Len(wd) : IsRainDay(wd[i]),
         tempVariation |-> tempVariation,
         isHot         |-> Ge(avgHigh, 80),
         isMild        |-> Ge(avgHigh, 60) /\ Le(avgHigh, 80),
         isCool        |-> Lt(avgLow, 60) /\ Ge(avgLow, 40),
         isCold        |-> Le(avgLow, 40),
         needsLayering |-> tempVariation.finite /\ tempVariation.value > 20]

\* analyzeWeather(weatherData). tempVariation of an empty forecast is
\* -Infinity - Infinity = -Infinity (finite = FALSE), which is not > 20.
AnalyzeWeather(wd) ==
    LET avgHigh == [num |-> SumHigh(wd), den |-> Len(wd)]
        avgLow  == [num |-> SumLow(wd), den |-> Len(wd)]
        tempVariation ==
            IF wd = <<>> THEN [finite |-> FALSE, value |-> 0]
            ELSE [finite |-> TRUE, value |-> MaxHigh(wd) - MinLow(wd)]
    IN  [avgHigh       |-> avgHigh,
         avgLow        |-> avgLow,
         hasRain       |-> \E i \in 1..Len(wd) : IsRainDay(wd[i]),
         tempVariation |-> tempVariation,
         isHot         |-> Gt(avgHigh, 80),
         isMild        |-> Ge(avgHigh, 60) /\ Le(avgHigh, 80),
         isCool        |-> Lt(avgLow, 60) /\ Ge(avgLow, 40),
         isCold        |-> Lt(avgLow, 40),
         needsLayering |-> tempVariation.finite /\ tempVariation.value > 20]

-----------------------------------------------------------------------------
(* The item rules of generatePackingList                                   *)

\* { name, category, quantity }
Item(name, category, quantity) ==
    [name |-> name, category |-> category, quantity |-> quantity]

\* the essentials pushed before addClothingItems()
EssentialItems ==
    << Item("Passport/ID", "Documents & Money", 1),
       Item("Phone + Charger", "Electronics", 1),
       Item("Toiletry Basics", "Toiletries", 1) >>

\* the essential clothing with one pair per day and none to spare
BaseClothingNoSpare(days) ==
    << Item("Underwear", "Clothing", days),
       Item("Socks", "Clothing", days) >>

\* the essential clothing addClothingItems pushes first
BaseClothing(days) ==
    << Item("Underwear", "Clothing", days + 1),
       Item("Socks", "Clothing", days + 1) >>

\* the Cool-or-layering items with one long-sleeved shirt for every two days,
\* layering or not
CoolItemsNoLayering(days, topsPerDay) ==
    << Item("Long Sleeve Shirts", "Clothing", CeilDiv(days, 2)),
       Item("Light Jacket", "Clothing", 1),
       Item("Warm Sweater", "Clothing", CeilDiv(days, 3)) >>

\* the items pushed if (weather.isCool || weather.needsLayering);
\* tripDays * topsPerDay * 0.5 is exact
CoolItems(days, topsPerDay) ==
    << Item("Long Sleeve Shirts", "Clothing", CeilDiv(days * topsPerDay, 2)),
       Item("Light Jacket", "Clothing", 1),
       Item("Warm Sweater", "Clothing", CeilDiv(days, 3)) >>

\* the cold items with a pair of thermal socks for every day
ColdItemsSocksPerDay(days) ==
    << Item("Warm Base Layer Set", "Clothing", 2),
       Item("Winter Coat", "Clothing", 1),
       Item("Warm Hat", "Accessories", 1),
       Item("Gloves", "Accessories", 1),
       Item("Scarf", "Accessories", 1),
       Item("Thermal Socks", "Clothing", days) >>

\* the items pushed if (weather.isCold)
ColdItems(days) ==
    << Item("Warm Base Layer Set", "Clothing", 2),
       Item("Winter Coat", "Clothing", 1),
       Item("Warm Hat", "Accessories", 1),
       Item("Gloves", "Accessories", 1),
       Item("Scarf", "Accessories", 1),
       Item("Thermal Socks", "Clothing", CeilDiv(days, 2)) >>

\* addClothingItems(). Math.ceil(tripDays * 0.7) is ceil(7 * tripDays / 10):
\* the double tripDays * 0.7 is an integer exactly when 7 * tripDays / 10
\* is.
AddClothingItems(days, w) ==
    LET topsPerDay == IF w.needsLayering THEN 2 ELSE 1
    IN  BaseClothing(days)
        \o (IF w.isHot
            THEN << Item("Breathable T-shirts", "Clothing", days),
                    Item("Lightweight Shorts", "Clothing", CeilDiv(days, 2)),
                    Item("Sun Protection Shirt", "Clothing", 1) >>
            ELSE <<>>)
        \o (IF w.isMild
            THEN << Item("Casual Shirts", "Clothing", CeilDiv(days * 7, 10)),
                    Item("Light Sweater", "Clothing", 1),
                    Item("Comfortable Pants", "Clothing", CeilDiv(days, 3)) >>
            ELSE <<>>)
        \o (IF w.isCool \/ w.needsLayering
            THEN CoolItems(days, topsPerDay)
            ELSE <<>>)
        \o (IF w.isCold THEN ColdItems(days) ELSE <<>>)

\* the activity strings of the model
ActivitySamples ==
    {"Beach day", "SWIMMING and hiking", "Business golf", "Museum"}

\* the activity strings of SpecVocabulary: those, and one for the gym
VocabularySamples == ActivitySamples \cup {"Gym WORKOUT"}

\* the activity the user of the wizard adds
WizardActivitySamples == {"Beach golf"}

\* the tests made on the activity string as it was typed
KeywordsCaseSensitive(activity) ==
    [beach    |-> Includes(activity, "beach") \/ Includes(activity, "swim"),
     hik      |-> Includes(activity, "hik"),
     business |-> Includes(activity, "business"),
     golf     |-> Includes(activity, "golf")]

\* the tests with the business keyword cut down to "us"
KeywordsShortened(activity) ==
    LET lowercaseActivity == ToLowerCase(activity)
    IN  [beach    |-> Includes(lowercaseActivity, "beach")
                      \/ Includes(lowercaseActivity, "swim"),
         hik      |-> Includes(lowercaseActivity, "hik"),
         business |-> Includes(lowercaseActivity, "us"),
         golf     |-> Includes(lowercaseActivity, "golf")]

\* the tests of one activity string: lowercaseActivity.includes(...)
Keywords(activity) ==
    LET lowercaseActivity == ToLowerCase(activity)
    IN  [beach    |-> Includes(lowercaseActivity, "beach")
                      \/ Includes(lowercaseActivity, "swim"),
         hik      |-> Includes(lowercaseActivity, "hik"),
         business |-> Includes(lowercaseActivity, "business"),
         golf     |-> Includes(lowercaseActivity, "golf")]

\* Keywords, computed once for each activity string of the model
KeywordsOf ==
    [activity \in VocabularySamples \cup WizardActivitySamples
         |-> Keywords(activity)]

\* business days without the cap of a working week
BusinessDaysUncapped(days) == days

\* const businessDays = Math.min(tripDays, 5)
BusinessDays(days) == Min(days, 5)

\* the body of activities.forEach in addActivityItems, for one activity
ActivityItems(activity, days, w) ==
    LET matches      == KeywordsOf[activity]
        beachDays    == CeilDiv(days, 3)
        hikingDays   == CeilDiv(days, 3)
        businessDays == BusinessDays(days)
        golfDays     == CeilDiv(days, 3)
    IN  (IF matches.beach
         THEN << Item("Swimsuit", "Clothing", Min(2, beachDays)),
                 Item("Beach Towel", "Accessories", 1),
                 Item("Waterproof Phone Case", "Accessories", 1),
                 Item("Beach Bag", "Accessories", 1) >>
              \o (IF w.isHot
                  THEN << Item("Extra Sunscreen", "Toiletries", 1),
                          Item("After-Sun Care", "Toiletries", 1) >>
                  ELSE <<>>)
         ELSE <<>>)
        \o (IF matches.hik
            THEN << Item("Hiking Boots", "Footwear", 1),
                    Item("Hiking Socks", "Clothing", hikingDays + 1),
                    Item("Moisture-Wicking Shirts", "Clothing", hikingDays),
                    Item("Hiking Pants", "Clothing", CeilDiv(hikingDays, 2)),
                    Item("First Aid Kit", "Safety", 1) >>
                 \o (IF w.hasRain
                     THEN << Item("Waterproof Jacket", "Clothing", 1),
                             Item("Quick-Dry Pants", "Clothing", 1) >>
                     ELSE <<>>)
            ELSE <<>>)
        \o (IF matches.business
            THEN << Item("Business Suits", "Business Attire",
                         CeilDiv(businessDays, 2)),
                    Item("Dress Shirts", "Business Attire", businessDays),
                    Item("Dress Pants", "Business Attire",
                         CeilDiv(businessDays, 2)),
                    Item("Dress Shoes", "Footwear", 1),
                    Item("Professional Accessories", "Business Items", 1) >>
                 \o (IF days > 3
                     THEN << Item("Portable Steamer", "Business Items", 1) >>
                     ELSE <<>>)
            ELSE <<>>)
        \o (IF matches.golf
            THEN << Item("Golf Polo Shirts", "Athletic Wear", golfDays),
                    Item("Golf Pants/Shorts", "Athletic Wear",
                         CeilDiv(golfDays, 2)),
                    Item("Golf Shoes", "Footwear", 1),
                    Item("Golf Glove", "Equipment", 1) >>
                 \o (IF w.isHot
                     THEN << Item("Golf Hat/Visor", "Accessories", 1),
                             Item("Golf Towel", "Equipment", 1) >>
                     ELSE <<>>)
            ELSE <<>>)

\* addActivityItems(): activities.forEach, in order
RECURSIVE AddActivityItems(_, _, _)
AddActivityItems(acts, days, w) ==
    IF acts = <<>> THEN <<>>
    ELSE ActivityItems(acts[1], days, w) \o AddActivityItems(Tail(acts), days, w)

\* if (weather.hasRain) items.push(Umbrella, Rain Jacket)
RainItems(w) ==
    IF w.hasRain
    THEN << Item("Umbrella", "Accessories", 1),
            Item("Rain Jacket", "Clothing", 1) >>
    ELSE <<>>

\* the duration extras from a full week on
DurationItemsFromWeek(days) ==
    IF days >= 7
    THEN << Item("Laundry Bag", "Accessories", 1),
            Item("Travel Detergent", "Toiletries", 1) >>
    ELSE <<>>

\* if (tripDays > 7) items.push(Laundry Bag, Travel Detergent)
DurationItems(days) ==
    IF days > 7
    THEN << Item("Laundry Bag", "Accessories", 1),
            Item("Travel Detergent", "Toiletries", 1) >>
    ELSE <<>>

\* the items array of generatePackingList when the merge step starts
GenerateItems(days, w, acts) ==
    EssentialItems
    \o AddClothingItems(days, w)
    \o AddActivityItems(acts, days, w)
    \o RainItems(w)
    \o DurationItems(days)

-----------------------------------------------------------------------------
(* Inputs                                                                  *)

Dates == 0..MaxDay

\* Zones without daylight saving (UTC, Los Angeles in winter, India, Japan)
\* and zones whose offset changes by an hour (New York, Berlin; forward and
\* back). Only the offsets at UTC midnights are read, so a change during
\* day k - 1 is the change at the instant k * MsPerDay.
FixedOffsets == {0, 480, -330, -540}

DstOffsets == {<<300, 240>>, <<240, 300>>, <<-60, -120>>, <<-120, -60>>}

TimeZones ==
    {[before |-> o, after |-> o, at |-> 0] : o \in FixedOffsets}
    \cup {[before |-> p[1], after |-> p[2], at |-> k * MsPerDay] :
              p \in DstOffsets, k \in 1..MaxDay}

\* items whose names and categories hold the "-" of the map key
MergeNames == {"T", "T-shirts"}

MergeCategories == {"Clothing", "shirts-Clothing"}

MergeItems ==
    {Item(n, c, q) : n \in MergeNames, c \in MergeCategories, q \in 1..MaxQty}

\* forecast days around the thresholds of analyzeWeather
\* (means of 80 and of 60 for the highs, of 40 and of 60 for the lows; a
\* spread of exactly 20 within a day and of more than 20 between days)
DaySamples ==
    { [high |-> 85, low |-> 70, conditions |-> "Sunny"],
      [high |-> 55, low |-> 35, conditions |-> "Light Rain"],
      [high |-> 65, low |-> 45, conditions |-> "light rain"],
      [high |-> 75, low |-> 60, conditions |-> "Cloudy"] }

\* the trips of SpecGenerate start on day 1 (so that they last from
\* 0 to MaxDay days), in UTC or in a zone whose clocks go forward during the
\* trip
GenStartDates == {1}

GenTimeZones ==
    { [before |-> 0, after |-> 0, at |-> 0],
      [before |-> 300, after |-> 240, at |-> 5 * MsPerDay] }

UTC == [before |-> 0, after |-> 0, at |-> 0]

\* the useState initial values of the wizard (lines 634-642)
InitialWizard ==
    /\ currentStep = 1
    /\ destination = ""
    /\ newActivity = ""
    /\ thrown = "none"
    /\ generations = 0
    /\ suggestions = <<>>
    /\ showSuggestions = FALSE
    /\ searchLoading = FALSE
    /\ timeoutRef = NoTimer
    /\ searches = <<>>
    /\ typed = ""

-----------------------------------------------------------------------------
(* The merge step as a function of an arbitrary item sequence              *)

InitMerge ==
    /\ InitialWizard
    /\ items \in BoundedSeq(MergeItems, MaxItems)
    /\ packingList = <<>>
    /\ pc = "start"
    /\ startDate = 0
    /\ endDate = 0
    /\ tz = UTC
    /\ activities = <<>>
    /\ weatherData = NoData
    /\ tripDays = Null
    /\ weather = Null

\* setPackingList(Array.from(itemMap.values())) of the items
MergeStep ==
    /\ pc = "start"
    /\ packingList' = Merge(items)
    /\ pc' = "merged"
    /\ UNCHANGED <<startDate, endDate, tz, activities, weatherData, tripDays,
                   weather, items>>
    /\ UNCHANGED wizardVars

\* the merge step run on its own output
MergeAgain ==
    /\ pc = "merged"
    /\ items' = packingList
    /\ packingList' = Merge(packingList)
    /\ pc' = "remerged"
    /\ UNCHANGED <<startDate, endDate, tz, activities, weatherData, tripDays,
                   weather>>
    /\ UNCHANGED wizardVars

NextMerge == MergeStep \/ MergeAgain

SpecMerge == InitMerge /\ [][NextMerge]_vars

-----------------------------------------------------------------------------
(* The duration as a function of two dates and the time zone               *)

InitDuration ==
    /\ InitialWizard
    /\ startDate \in Dates
    /\ endDate \in Dates
    /\ tz \in TimeZones
    /\ pc = "start"
    /\ activities = <<>>
    /\ weatherData = NoData
    /\ packingList = <<>>
    /\ tripDays = Null
    /\ weather = Null
    /\ items = <<>>

\* const tripDays = Math.floor((end.getTime() - start.getTime()) / ...) + 1
ComputeDuration ==
    /\ pc = "start"
    /\ tripDays' = TripDays(startDate, endDate, tz)
    /\ pc' = "computed"
    /\ UNCHANGED <<startDate, endDate, tz, activities, weatherData,
                   packingList, weather, items>>
    /\ UNCHANGED wizardVars

NextDuration == ComputeDuration

SpecDuration == InitDuration /\ [][NextDuration]_vars

-----------------------------------------------------------------------------
(* generatePackingList as a function of dates, forecast and activities     *)

InitGenerate ==
    /\ InitialWizard
    /\ startDate \in GenStartDates
    /\ endDate \in Dates
    /\ tz \in GenTimeZones
    /\ activities \in BoundedSeq(ActivitySamples, MaxActivities)
    /\ weatherData \in {Loaded(a) : a \in BoundedSeq(DaySamples, MaxForecastLen)}
    /\ packingList = <<>>
    /\ pc = "start"
    /\ tripDays = Null
    /\ weather = Null
    /\ items = <<>>

\* generatePackingList()
GeneratePackingList ==
    /\ pc = "start"
    /\ tripDays' = TripDays(startDate, endDate, tz)
    /\ IF weatherData = NoData
       THEN UNCHANGED <<weather, items, packingList>>
       ELSE /\ weather' = AnalyzeWeather(weatherData[1])
            /\ items' = GenerateItems(tripDays', weather', activities)
            /\ packingList' = Merge(items')
    /\ pc' = "generated"
    /\ UNCHANGED <<startDate, endDate, tz, activities, weatherData>>
    /\ UNCHANGED wizardVars

NextGenerate == GeneratePackingList

SpecGenerate == InitGenerate /\ [][NextGenerate]_vars

-----------------------------------------------------------------------------
(* generatePackingList for the activity strings of the vocabulary, on      *)
(* forecasts of one day                                                    *)

InitVocabulary ==
    /\ InitialWizard
    /\ startDate \in GenStartDates
    /\ endDate \in Dates
    /\ tz = UTC
    /\ activities \in BoundedSeq(VocabularySamples, MaxActivities)
    /\ weatherData \in {Loaded(<<day>>) : day \in DaySamples}
    /\ packingList = <<>>
    /\ pc = "start"
    /\ tripDays = Null
    /\ weather = Null
    /\ items = <<>>

NextVocabulary == GeneratePackingList

SpecVocabulary == InitVocabulary /\ [][NextVocabulary]_vars

-----------------------------------------------------------------------------
(* The wizard: the event handlers of PackingApp                            *)

\* the wizard's dates are the days 0..MaxWizardDay
MaxWizardDay == 2
\* generatePackingList runs at most MaxGenerations times
MaxGenerations == 2

\* the date string '' of an empty date input
NoDate == -1

WizardDates == 0..MaxWizardDay

\* the wizard runs in UTC (the zones with a change of offset are those of
\* SpecDuration and SpecGenerate)
WizardTimeZones == {UTC}

\* what the user types into the destination input of the wizard: a text of
\* one character is a destination (line 754 tests only that it is not '')
\* and starts no city search (line 704)
Destinations == {"", "P"}

\* what the user types into the destination input while searching
SearchTexts == {"", "P", "Pa", "Par"}

\* the city searches in flight at one time
MaxSearches == 2

\* data.features.map(feature => feature.place_name) of the response to a
\* query (line 686)
PlaceNames(query) ==
    CASE query = "Pa" -> <<"Paris, France", "Panama City, Panama">>
      [] query = "Par" -> <<"Paris, France">>
      [] OTHER -> <<>>

\* searchCities: ok is whether the fetch answered with a well-formed body
\* (lines 677-684); an error is caught and gives [] (lines 688-691)
SearchCities(query, ok) ==
    IF Len(query) < 2
    THEN <<>>
    ELSE IF ok THEN PlaceNames(query) ELSE <<>>

\* what the user types into the activity input
NewActivitySamples == {"", " ", " Beach golf "}

\* String.prototype.trim, on spaces
RECURSIVE TrimStart(_)
TrimStart(s) ==
    IF Len(s) > 0 /\ SubSeq(s, 1, 1) = " "
    THEN TrimStart(SubSeq(s, 2, Len(s)))
    ELSE s

RECURSIVE TrimEnd(_)
TrimEnd(s) ==
    IF Len(s) > 0 /\ SubSeq(s, Len(s), Len(s)) = " "
    THEN TrimEnd(SubSeq(s, 1, Len(s) - 1))
    ELSE s

Trim(s) == TrimEnd(TrimStart(s))

\* ['Sunny', 'Partly Cloudy', 'Cloudy', 'Light Rain']
Conditions == <<"Sunny", "Partly Cloudy", "Cloudy", "Light Rain">>

\* an element of mockWeather with highs from 67 on
MockDayWarmer(random) ==
    [high       |-> random.high + 67,
     low        |-> random.low + 45,
     conditions |-> Conditions[random.conditions + 1]]

\* One element of mockWeather, from the three values of
\* Math.floor(Math.random() * 15), (the same), Math.floor(Math.random() * 4)
\* drawn for it. (The date label of the day is not read by the core.)
MockDay(random) ==
    [high       |-> random.high + 65,
     low        |-> random.low + 45,
     conditions |-> Conditions[random.conditions + 1]]

\* the draws of the model: the coolest and driest day with the mildest
\* night, and the warmest and wettest day with the coldest night
RandomDraws ==
    << [high |-> 0, low |-> 14, conditions |-> 0],
       [high |-> 14, low |-> 0, conditions |-> 3] >>

\* the runs of draws of the model: the same draw for every day, or the two
\* draws in turn (run[i] is the draw of day i, for every i >= 1)
RandomRuns ==
    { [first |-> 1, step |-> 0], [first |-> 2, step |-> 0],
      [first |-> 1, step |-> 1] }

DrawOf(run, i) == RandomDraws[((run.first - 1 + run.step * (i - 1)) % 2) + 1]

\* the arrays Array(days).fill(null).map(...) gives on these runs, for
\* days >= 0
MockWeather(days) ==
    {[i \in 1..days |-> MockDay(DrawOf(run, i))] : run \in RandomRuns}

\* the body of generatePackingList() with every item x1 kept from the list
\* of the generation before
DoGeneratePackingListKeeping ==
    /\ tripDays' = TripDays(startDate, endDate, tz)
    /\ IF weatherData = NoData
       THEN UNCHANGED <<weather, items, packingList>>
       ELSE /\ weather' = AnalyzeWeather(weatherData[1])
            /\ items' = GenerateItems(tripDays', weather', activities)
            /\ packingList' = Merge(items' \o packingList)

\* the body of generatePackingList()
DoGeneratePackingList ==
    /\ tripDays' = TripDays(startDate, endDate, tz)
    /\ IF weatherData = NoData
       THEN UNCHANGED <<weather, items, packingList>>
       ELSE /\ weather' = AnalyzeWeather(weatherData[1])
            /\ items' = GenerateItems(tripDays', weather', activities)
            /\ packingList' = Merge(items')

Init ==
    /\ InitialWizard
    /\ startDate = NoDate
    /\ endDate = NoDate
    /\ tz \in WizardTimeZones
    /\ activities = <<>>
    /\ weatherData = NoData
    /\ packingList = <<>>
    /\ tripDays = Null
    /\ weather = Null
    /\ items = <<>>
    /\ pc = "wizard"

\* handleDestinationChange: clearTimeout drops the pending timer (a search
\* that has begun is not cancelled), then a text of two characters or more
\* schedules a search and a shorter one empties the suggestions
HandleDestinationChange(value) ==
    /\ currentStep = 1
    /\ destination' = value
    /\ typed' = value
    /\ IF Len(value) >= 2
       THEN /\ showSuggestions' = TRUE
            /\ searchLoading' = TRUE
            /\ timeoutRef' = value
            /\ UNCHANGED suggestions
       ELSE /\ showSuggestions' = FALSE
            /\ suggestions' = <<>>
            /\ timeoutRef' = NoTimer
            /\ UNCHANGED searchLoading
    /\ thrown' = "none"
    /\ UNCHANGED <<startDate, endDate, tz, activities, weatherData,
                   packingList, tripDays, weather, items, pc, currentStep,
                   newActivity, generations, searches>>

\* onChange of the start date input: setStartDate(e.target.value)
SetStartDate(value) ==
    /\ currentStep = 1
    /\ startDate' = value
    /\ thrown' = "none"
    /\ UNCHANGED <<endDate, tz, activities, weatherData, packingList,
                   tripDays, weather, items, pc, currentStep, destination,
                   newActivity, generations>>
    /\ UNCHANGED searchVars

\* onChange of the end date input: setEndDate(e.target.value)
SetEndDate(value) ==
    /\ currentStep = 1
    /\ endDate' = value
    /\ thrown' = "none"
    /\ UNCHANGED <<startDate, tz, activities, weatherData, packingList,
                   tripDays, weather, items, pc, currentStep, destination,
                   newActivity, generations>>
    /\ UNCHANGED searchVars

\* handleNextStep at step 1 (the button is disabled under the same test)
NextFromDetails ==
    /\ currentStep = 1
    /\ destination # "" /\ startDate # NoDate /\ endDate # NoDate
    /\ currentStep' = 2
    /\ thrown' = "none"
    /\ UNCHANGED <<startDate, endDate, tz, activities, weatherData,
                   packingList, tripDays, weather, items, pc, destination,
                   newActivity, generations>>
    /\ UNCHANGED searchVars

\* handleNextStep at step 2: generateWeatherData(); setCurrentStep(3).
\* Array(days) throws a RangeError for days < 0, and the handler ends there.
NextFromActivities ==
    /\ currentStep = 2
    /\ LET days == TripDays(startDate, endDate, tz)
       IN  IF days < 0
           THEN /\ thrown' = "RangeError"
                /\ UNCHANGED <<weatherData, currentStep>>
           ELSE /\ \E mockWeather \in MockWeather(days) :
                       weatherData' = Loaded(mockWeather)
                /\ currentStep' = 3
                /\ thrown' = "none"
    /\ UNCHANGED <<startDate, endDate, tz, activities, packingList, tripDays,
                   weather, items, pc, destination, newActivity, generations>>
    /\ UNCHANGED searchVars

\* handleNextStep at step 3 (rendered when weatherData is not null):
\* generatePackingList(); setCurrentStep(4)
NextFromWeather ==
    /\ currentStep = 3
    /\ weatherData # NoData
    /\ generations < MaxGenerations
    /\ DoGeneratePackingList
    /\ currentStep' = 4
    /\ generations' = generations + 1
    /\ thrown' = "none"
    /\ UNCHANGED <<startDate, endDate, tz, activities, weatherData, pc,
                   destination, newActivity>>
    /\ UNCHANGED searchVars

HandleNextStep == NextFromDetails \/ NextFromActivities \/ NextFromWeather

\* handleBackStep, from the Back button of steps 2, 3 (rendered when
\* weatherData is not null) and 4 (rendered when packingList is not empty)
HandleBackStep ==
    /\ currentStep \in 2..4
    /\ currentStep = 3 => weatherData # NoData
    /\ currentStep = 4 => Len(packingList) > 0
    /\ currentStep' = currentStep - 1
    /\ thrown' = "none"
    /\ UNCHANGED <<startDate, endDate, tz, activities, weatherData,
                   packingList, tripDays, weather, items, pc, destination,
                   newActivity, generations>>
    /\ UNCHANGED searchVars

\* onChange of the activity input: setNewActivity(e.target.value)
SetNewActivity(value) ==
    /\ currentStep = 2
    /\ newActivity' = value
    /\ thrown' = "none"
    /\ UNCHANGED <<startDate, endDate, tz, activities, weatherData,
                   packingList, tripDays, weather, items, pc, currentStep,
                   destination, generations>>
    /\ UNCHANGED searchVars

\* addActivity, from the button or from Enter (handleKeyPress)
AddActivity ==
    /\ currentStep = 2
    /\ Trim(newActivity) # ""
    /\ Len(activities) < MaxActivities
    /\ activities' = Append(activities, Trim(newActivity))
    /\ newActivity' = ""
    /\ thrown' = "none"
    /\ UNCHANGED <<startDate, endDate, tz, weatherData, packingList,
                   tripDays, weather, items, pc, currentStep, destination,
                   generations>>
    /\ UNCHANGED searchVars

\* removeActivity(index): activities.filter((_, i) => i !== index)
RemoveActivity(index) ==
    /\ currentStep = 2
    /\ index \in 1..Len(activities)
    /\ activities' = SubSeq(activities, 1, index - 1)
                        \o SubSeq(activities, index + 1, Len(activities))
    /\ thrown' = "none"
    /\ UNCHANGED <<startDate, endDate, tz, weatherData, packingList,
                   tripDays, weather, items, pc, currentStep, destination,
                   newActivity, generations>>
    /\ UNCHANGED searchVars

Next ==
    \/ \E value \in Destinations : HandleDestinationChange(value)
    \/ \E value \in WizardDates : SetStartDate(value)
    \/ \E value \in WizardDates : SetEndDate(value)
    \/ HandleNextStep
    \/ HandleBackStep
    \/ \E value \in NewActivitySamples : SetNewActivity(value)
    \/ AddActivity
    \/ \E index \in 1..MaxActivities : RemoveActivity(index)

Spec == Init /\ [][Next]_vars

-----------------------------------------------------------------------------
(* The city search: the timer of handleDestinationChange and its searches  *)

RemoveSearch(index) ==
    SubSeq(searches, 1, index - 1) \o SubSeq(searches, index + 1, Len(searches))

\* the timer fires after 300 ms: the callback calls searchCities(value),
\* which awaits fetch
TimerFires ==
    /\ timeoutRef # NoTimer
    /\ Len(searches) < MaxSearches
    /\ searches' = Append(searches, timeoutRef)
    /\ timeoutRef' = NoTimer
    /\ thrown' = "none"
    /\ UNCHANGED <<startDate, endDate, tz, activities, weatherData,
                   packingList, tripDays, weather, items, pc, currentStep,
                   destination, newActivity, generations, suggestions,
                   showSuggestions, searchLoading, typed>>

\* a search in flight answers, in any order: the callback resumes after
\* await with setSuggestions(results) and, finally, setSearchLoading(false)
SearchResponds(index, ok) ==
    /\ index \in 1..Len(searches)
    /\ suggestions' = SearchCities(searches[index], ok)
    /\ searchLoading' = FALSE
    /\ searches' = RemoveSearch(index)
    /\ thrown' = "none"
    /\ UNCHANGED <<startDate, endDate, tz, activities, weatherData,
                   packingList, tripDays, weather, items, pc, currentStep,
                   destination, newActivity, generations, showSuggestions,
                   timeoutRef, typed>>

\* selectSuggestion, the onClick of a suggestion of the dropdown
SelectSuggestion(index) ==
    /\ currentStep = 1
    /\ showSuggestions
    /\ index \in 1..Len(suggestions)
    /\ destination' = suggestions[index]
    /\ showSuggestions' = FALSE
    /\ thrown' = "none"
    /\ UNCHANGED <<startDate, endDate, tz, activities, weatherData,
                   packingList, tripDays, weather, items, pc, currentStep,
                   newActivity, generations, suggestions, searchLoading,
                   timeoutRef, searches, typed>>

\* onFocus of the destination input
FocusDestination ==
    /\ currentStep = 1
    /\ showSuggestions' = (IF Len(destination) >= 2 THEN TRUE ELSE showSuggestions)
    /\ thrown' = "none"
    /\ UNCHANGED <<startDate, endDate, tz, activities, weatherData,
                   packingList, tripDays, weather, items, pc, currentStep,
                   destination, newActivity, generations, suggestions,
                   searchLoading, timeoutRef, searches, typed>>

\* handleClickOutside: suggestionsRef.current is the dropdown, which is
\* rendered while showSuggestions holds
HandleClickOutside ==
    /\ currentStep = 1
    /\ showSuggestions
    /\ showSuggestions' = FALSE
    /\ thrown' = "none"
    /\ UNCHANGED <<startDate, endDate, tz, activities, weatherData,
                   packingList, tripDays, weather, items, pc, currentStep,
                   destination, newActivity, generations, suggestions,
                   searchLoading, timeoutRef, searches, typed>>

NextSearch ==
    \/ \E value \in SearchTexts : HandleDestinationChange(value)
    \/ TimerFires
    \/ \E index \in 1..MaxSearches, ok \in BOOLEAN : SearchResponds(index, ok)
    \/ \E index \in 1..2 : SelectSuggestion(index)
    \/ FocusDestination
    \/ HandleClickOutside

SpecSearch == Init /\ [][NextSearch]_vars

-----------------------------------------------------------------------------
(* Vocabulary of the properties                                            *)

SamePair(a, b) == a.name = b.name /\ a.category = b.category

NoDuplicatePairs(list) ==
    \A i, j \in 1..Len(list) : SamePair(list[i], list[j]) => i = j

PairsOf(list) == {<<list[i].name, list[i].category>> : i \in 1..Len(list)}

EntriesOf(list) == {list[i] : i \in 1..Len(list)}

\* the greatest quantity among the items of list with the pair of item
MaxQuantity(list, item) ==
    CHOOSE q \in {list[i].quantity : i \in {k \in 1..Len(list) : SamePair(list[k], item)}} :
        \A i \in 1..Len(list) : SamePair(list[i], item) => list[i].quantity <= q

\* list has the item name (category) x quantity, and no other entry of that
\* name and category
Contains(list, name, category, quantity) ==
    /\ \E i \in 1..Len(list) : list[i] = Item(name, category, quantity)
    /\ \A i \in 1..Len(list) :
           SamePair(list[i], Item(name, category, quantity))
               => list[i].quantity = quantity

Lacks(list, name, category) ==
    \A i \in 1..Len(list) : ~SamePair(list[i], Item(name, category, 0))

-----------------------------------------------------------------------------
(* C1..C5: the merge step (SpecMerge)                                      *)

\* C1: the output of the merge step holds no two elements with the same
\* (name, category) pair, whatever the input item sequence is.
C1_MergeOutputUnique ==
    pc \in {"merged", "remerged"} => NoDuplicatePairs(packingList)

\* a merged input in which some (name, category) pair occurs twice
C1_Witness ==
    /\ pc = "merged"
    /\ ~NoDuplicatePairs(items)
    /\ Len(packingList) >= 2

\* C2: for every (name, category) pair of the input, the output's entry for
\* that pair has the maximum quantity among the input items with that pair.
C2_MaxQuantityPerPair ==
    pc = "merged" =>
        \A k \in 1..Len(items) :
            Contains(packingList, items[k].name, items[k].category,
                     MaxQuantity(items, items[k]))

\* C3: items whose (name, category) pairs differ are never merged: the
\* output has exactly one entry per distinct pair of the input, also for
\* names and categories that hold a "-".
C3_OneEntryPerPair ==
    pc = "merged" =>
        /\ PairsOf(packingList) = PairsOf(items)
        /\ Len(packingList) = Cardinality(PairsOf(items))

\* C4: the merge step is idempotent: run on its own output (items, after
\* MergeAgain) it gives that output back, entry by entry and in order.
C4_MergeIdempotent == pc = "remerged" => packingList = items

\* a second merge of an output of two entries or more
C4_Witness ==
    /\ pc = "remerged"
    /\ Len(items) >= 2
    /\ packingList = items

\* C5: the merge step is order-independent: every permutation of the input
\* merges to the same set of (name, category, quantity) entries.
C5_MergeOrderIndependent ==
    pc = "merged" =>
        \A f \in Permutations(1..Len(items)) :
            EntriesOf(Merge([i \in 1..Len(items) |-> items[f[i]]]))
                = EntriesOf(packingList)

-----------------------------------------------------------------------------
(* C6, C7: the trip duration (SpecDuration)                                *)

\* C6: the duration of a trip that starts and ends on the same date is 1,
\* in every time zone.
C6_SameDayIsOne ==
    (pc = "computed" /\ startDate = endDate) => tripDays = 1

\* a one-day trip in a zone with a daylight-saving change
C6_Witness ==
    /\ pc = "computed"
    /\ startDate = endDate
    /\ tz.before # tz.after
    /\ tripDays = 1

\* C7: the duration from date d to date d + k is k + 1, whatever offsets the
\* time zone has on the two dates.
C7_InclusiveDayCount ==
    (pc = "computed" /\ endDate >= startDate)
        => tripDays = endDate - startDate + 1

-----------------------------------------------------------------------------
(* C8..C10: generatePackingList (SpecGenerate)                             *)

Forecast == weatherData[1]

\* C8: for a non-empty forecast, isHot iff mean high > 80, isMild iff
\* 60 <= mean high <= 80, isCool iff 40 <= mean low < 60, isCold iff mean
\* low < 40 (the means compared as sums against threshold * days); so isHot
\* and isMild are never both true, nor isCool and isCold.
C8_WeatherBands ==
    (pc = "generated" /\ Len(Forecast) > 0) =>
        LET n == Len(Forecast)
            highs == SumHigh(Forecast)
            lows == SumLow(Forecast)
        IN  /\ weather.isHot <=> highs > 80 * n
            /\ weather.isMild <=> (60 * n <= highs /\ highs <= 80 * n)
            /\ weather.isCool <=> (40 * n <= lows /\ lows < 60 * n)
            /\ weather.isCold <=> lows < 40 * n
            /\ ~(weather.isHot /\ weather.isMild)
            /\ ~(weather.isCool /\ weather.isCold)

\* a forecast whose mean high is exactly 60 and mean low exactly 40
C8_Witness ==
    /\ pc = "generated"
    /\ Len(Forecast) > 0
    /\ SumHigh(Forecast) = 60 * Len(Forecast)
    /\ SumLow(Forecast) = 40 * Len(Forecast)
    /\ weather.isMild /\ ~weather.isHot
    /\ weather.isCool /\ ~weather.isCold

\* C9: hasRain iff some forecast day's conditions contain "Rain" (in that
\* letter case); the list has Umbrella x1 (Accessories) and Rain Jacket x1
\* (Clothing) when hasRain and neither of them otherwise, whatever the
\* activities are.
C9_RainExtras ==
    pc = "generated" =>
        /\ weather.hasRain <=>
               \E d \in 1..Len(Forecast) :
                   \E i \in 1..(Len(Forecast[d].conditions) - 3) :
                       SubSeq(Forecast[d].conditions, i, i + 3) = "Rain"
        /\ weather.hasRain =>
               /\ Contains(packingList, "Umbrella", "Accessories", 1)
               /\ Contains(packingList, "Rain Jacket", "Clothing", 1)
        /\ ~weather.hasRain =>
               /\ Lacks(packingList, "Umbrella", "Accessories")
               /\ Lacks(packingList, "Rain Jacket", "Clothing")

\* a rainy forecast and no activity at all
C9_Witness ==
    /\ pc = "generated"
    /\ activities = <<>>
    /\ weather.hasRain
    /\ Contains(packingList, "Umbrella", "Accessories", 1)

\* C10: for tripDays >= 1 the list has Passport/ID x1, Phone + Charger x1,
\* Toiletry Basics x1, Underwear x(tripDays + 1) and Socks x(tripDays + 1),
\* and no rule raises the last two, whatever the weather and activities.
C10_Essentials ==
    (pc = "generated" /\ tripDays >= 1) =>
        /\ Contains(packingList, "Passport/ID", "Documents & Money", 1)
        /\ Contains(packingList, "Phone + Charger", "Electronics", 1)
        /\ Contains(packingList, "Toiletry Basics", "Toiletries", 1)
        /\ Contains(packingList, "Underwear", "Clothing", tripDays + 1)
        /\ Contains(packingList, "Socks", "Clothing", tripDays + 1)

\* a one-day trip with activities: Underwear x2 and Socks x2
C10_Witness ==
    /\ pc = "generated"
    /\ tripDays = 1
    /\ activities # <<>>
    /\ Contains(packingList, "Underwear", "Clothing", 2)
    /\ Contains(packingList, "Socks", "Clothing", 2)

-----------------------------------------------------------------------------
(* C11..C13: the duration extras and the hot and cold scenarios            *)
(* (SpecGenerate)                                                          *)

\* the activity strings of the model that hold "beach" or "swim", in some
\* letter case
BeachActivities == {"Beach day", "SWIMMING and hiking"}

HasBeachActivity ==
    \E i \in 1..Len(activities) : activities[i] \in BeachActivities

\* C11: Laundry Bag x1 and Travel Detergent x1 are in the generated list iff
\* tripDays > 7 (absent for 1 and for 7 days, present for 8), whatever the
\* weather and the activities are.
C11_DurationExtras ==
    pc = "generated" =>
        /\ tripDays > 7 =>
               /\ Contains(packingList, "Laundry Bag", "Accessories", 1)
               /\ Contains(packingList, "Travel Detergent", "Toiletries", 1)
        /\ tripDays <= 7 =>
               /\ Lacks(packingList, "Laundry Bag", "Accessories")
               /\ Lacks(packingList, "Travel Detergent", "Toiletries")

\* a trip of exactly 8 days with activities in rain: both extras are there
C11_Witness ==
    /\ pc = "generated"
    /\ tripDays = 8
    /\ activities # <<>>
    /\ weather.hasRain
    /\ Contains(packingList, "Laundry Bag", "Accessories", 1)
    /\ Contains(packingList, "Travel Detergent", "Toiletries", 1)

\* C12: when isHot and some activity holds "beach" or "swim" in any letter
\* case, the list has Breathable T-shirts x tripDays, Lightweight Shorts x
\* ceil(tripDays/2), Sun Protection Shirt x1, Swimsuit x min(2,
\* ceil(tripDays/3)), Beach Towel x1, Waterproof Phone Case x1, Beach Bag
\* x1, Extra Sunscreen x1 and After-Sun Care x1, and no Umbrella when no day
\* has rain (for 5 days: T-shirts x5, Shorts x3, Swimsuit x2); with the beach
\* keyword and isHot false, Extra Sunscreen and After-Sun Care are absent.
C12_HotBeach ==
    (pc = "generated" /\ HasBeachActivity) =>
        /\ SumHigh(Forecast) > 80 * Len(Forecast) =>
               /\ Contains(packingList, "Breathable T-shirts", "Clothing", tripDays)
               /\ Contains(packingList, "Lightweight Shorts", "Clothing",
                           CeilDiv(tripDays, 2))
               /\ Contains(packingList, "Sun Protection Shirt", "Clothing", 1)
               /\ Contains(packingList, "Swimsuit", "Clothing",
                           Min(2, CeilDiv(tripDays, 3)))
               /\ Contains(packingList, "Beach Towel", "Accessories", 1)
               /\ Contains(packingList, "Waterproof Phone Case", "Accessories", 1)
               /\ Contains(packingList, "Beach Bag", "Accessories", 1)
               /\ Contains(packingList, "Extra Sunscreen", "Toiletries", 1)
               /\ Contains(packingList, "After-Sun Care", "Toiletries", 1)
               /\ (\A d \in 1..Len(Forecast) : ~IsRainDay(Forecast[d]))
                      => \A i \in 1..Len(packingList) :
                             packingList[i].name # "Umbrella"
               /\ tripDays = 5 =>
                      /\ Contains(packingList, "Breathable T-shirts", "Clothing", 5)
                      /\ Contains(packingList, "Lightweight Shorts", "Clothing", 3)
                      /\ Contains(packingList, "Swimsuit", "Clothing", 2)
        /\ SumHigh(Forecast) <= 80 * Len(Forecast) =>
               /\ Lacks(packingList, "Extra Sunscreen", "Toiletries")
               /\ Lacks(packingList, "After-Sun Care", "Toiletries")

\* the scenario: 5 days, mean high 85, mean low 70, no rain, ["Beach day"]
C12_Witness ==
    /\ pc = "generated"
    /\ tripDays = 5
    /\ activities = <<"Beach day">>
    /\ Len(Forecast) > 0
    /\ SumHigh(Forecast) = 85 * Len(Forecast)
    /\ SumLow(Forecast) = 70 * Len(Forecast)
    /\ weather.isHot /\ ~weather.hasRain
    /\ Contains(packingList, "Underwear", "Clothing", 6)
    /\ Contains(packingList, "Swimsuit", "Clothing", 2)
    /\ Contains(packingList, "Extra Sunscreen", "Toiletries", 1)

\* C13: when isCold (mean low < 40) the list has Warm Base Layer Set x2,
\* Winter Coat x1, Warm Hat x1, Gloves x1, Scarf x1 and Thermal Socks x
\* ceil(tripDays/2), and none of these when isCold is false; for 10 days,
\* mean low 35, rain and no activities it has Winter Coat x1, Warm Hat x1,
\* Thermal Socks x5, Umbrella x1, Rain Jacket x1, Laundry Bag x1 and Travel
\* Detergent x1.
C13_Cold ==
    (pc = "generated" /\ Len(Forecast) > 0) =>
        /\ SumLow(Forecast) < 40 * Len(Forecast) =>
               /\ Contains(packingList, "Warm Base Layer Set", "Clothing", 2)
               /\ Contains(packingList, "Winter Coat", "Clothing", 1)
               /\ Contains(packingList, "Warm Hat", "Accessories", 1)
               /\ Contains(packingList, "Gloves", "Accessories", 1)
               /\ Contains(packingList, "Scarf", "Accessories", 1)
               /\ Contains(packingList, "Thermal Socks", "Clothing",
                           CeilDiv(tripDays, 2))
        /\ SumLow(Forecast) >= 40 * Len(Forecast) =>
               /\ Lacks(packingList, "Warm Base Layer Set", "Clothing")
               /\ Lacks(packingList, "Winter Coat", "Clothing")
               /\ Lacks(packingList, "Warm Hat", "Accessories")
               /\ Lacks(packingList, "Gloves", "Accessories")
               /\ Lacks(packingList, "Scarf", "Accessories")
               /\ Lacks(packingList, "Thermal Socks", "Clothing")
        /\ (tripDays = 10 /\ SumLow(Forecast) = 35 * Len(Forecast)
                /\ weather.hasRain /\ activities = <<>>) =>
               /\ Contains(packingList, "Winter Coat", "Clothing", 1)
               /\ Contains(packingList, "Warm Hat", "Accessories", 1)
               /\ Contains(packingList, "Thermal Socks", "Clothing", 5)
               /\ Contains(packingList, "Umbrella", "Accessories", 1)
               /\ Contains(packingList, "Rain Jacket", "Clothing", 1)
               /\ Contains(packingList, "Laundry Bag", "Accessories", 1)
               /\ Contains(packingList, "Travel Detergent", "Toiletries", 1)

\* the scenario: 10 days, mean low 35, rain, no activities
C13_Witness ==
    /\ pc = "generated"
    /\ tripDays = 10
    /\ activities = <<>>
    /\ Len(Forecast) > 0
    /\ SumLow(Forecast) = 35 * Len(Forecast)
    /\ weather.isCold /\ weather.hasRain
    /\ Contains(packingList, "Thermal Socks", "Clothing", 5)
    /\ Contains(packingList, "Laundry Bag", "Accessories", 1)

-----------------------------------------------------------------------------
(* C16: an activity without a keyword (SpecGenerate)                       *)

\* an activity string that holds none of "beach", "swim", "hik", "business"
\* and "golf"
UnmatchedActivity == "Museum"

\* the sequence s without its p-th element
RemoveAt(s, p) == SubSeq(s, 1, p - 1) \o SubSeq(s, p + 1, Len(s))

\* C16: an activity string that holds no keyword contributes no items and
\* raises no error: whenever the activity list of the state is a list A with
\* such a string inserted at some position p, the list generated for it is
\* the list generated for A.
C16_UnmatchedActivity ==
    pc = "generated" =>
        \A p \in 1..Len(activities) :
            activities[p] = UnmatchedActivity =>
                packingList = Merge(GenerateItems(tripDays, weather,
                                                  RemoveAt(activities, p)))

\* a generation for ["Museum", "Beach day"] that gives the list of
\* ["Beach day"]
C16_Witness ==
    /\ pc = "generated"
    /\ activities = <<UnmatchedActivity, "Beach day">>
    /\ packingList = Merge(GenerateItems(tripDays, weather, <<"Beach day">>))
    /\ Contains(packingList, "Beach Towel", "Accessories", 1)

-----------------------------------------------------------------------------
(* C18..C20: layering and the activity rules (SpecGenerate, and            *)
(* SpecVocabulary for C20)                                                 *)

\* the highest high of the forecast exceeds its lowest low by more than 20
SpreadOver20 ==
    \E i, j \in 1..Len(Forecast) : Forecast[i].high - Forecast[j].low > 20

\* the mean low of the forecast is at least 40 and below 60
CoolForecast ==
    /\ Len(Forecast) > 0
    /\ 40 * Len(Forecast) <= SumLow(Forecast)
    /\ SumLow(Forecast) < 60 * Len(Forecast)

\* C18: needsLayering iff (the maximum high over the forecast days) - (the
\* minimum low over them) > 20; the list has the Cool-or-layering items iff
\* isCool or needsLayering: Long Sleeve Shirts x tripDays with needsLayering
\* and x ceil(tripDays/2) without, Light Jacket x1 and Warm Sweater x
\* ceil(tripDays/3).
C18_Layering ==
    pc = "generated" =>
        /\ weather.needsLayering <=> SpreadOver20
        /\ (CoolForecast \/ SpreadOver20) =>
               /\ Contains(packingList, "Long Sleeve Shirts", "Clothing",
                           IF SpreadOver20 THEN tripDays
                                           ELSE CeilDiv(tripDays, 2))
               /\ Contains(packingList, "Light Jacket", "Clothing", 1)
               /\ Contains(packingList, "Warm Sweater", "Clothing",
                           CeilDiv(tripDays, 3))
        /\ ~(CoolForecast \/ SpreadOver20) =>
               /\ Lacks(packingList, "Long Sleeve Shirts", "Clothing")
               /\ Lacks(packingList, "Light Jacket", "Clothing")
               /\ Lacks(packingList, "Warm Sweater", "Clothing")

\* five days with a spread of 25 and a mean low of 65: layering without
\* isCool, and a shirt for every day
C18_Witness ==
    /\ pc = "generated"
    /\ tripDays = 5
    /\ weather.needsLayering /\ ~weather.isCool
    /\ weather.tempVariation.value = 25
    /\ Contains(packingList, "Long Sleeve Shirts", "Clothing", 5)
    /\ Contains(packingList, "Warm Sweater", "Clothing", 2)

\* some activity of the state holds "business", in some letter case
HasBusinessActivity ==
    \E i \in 1..Len(activities) : activities[i] = "Business golf"

\* C19: when some activity holds "business" in any letter case, with
\* businessDays = min(tripDays, 5), the list has Business Suits x
\* ceil(businessDays/2), Dress Shirts x businessDays, Dress Pants x
\* ceil(businessDays/2), Dress Shoes x1 and Professional Accessories x1;
\* Dress Shirts never exceeds 5 and Suits and Pants never exceed 3; Portable
\* Steamer x1 is present iff tripDays > 3.
C19_Business ==
    (pc = "generated" /\ HasBusinessActivity) =>
        LET businessDays == IF tripDays < 5 THEN tripDays ELSE 5
        IN  /\ Contains(packingList, "Business Suits", "Business Attire",
                        CeilDiv(businessDays, 2))
            /\ Contains(packingList, "Dress Shirts", "Business Attire",
                        businessDays)
            /\ Contains(packingList, "Dress Pants", "Business Attire",
                        CeilDiv(businessDays, 2))
            /\ Contains(packingList, "Dress Shoes", "Footwear", 1)
            /\ Contains(packingList, "Professional Accessories",
                        "Business Items", 1)
            /\ \A i \in 1..Len(packingList) :
                   /\ packingList[i].name = "Dress Shirts"
                          => packingList[i].quantity <= 5
                   /\ packingList[i].name \in {"Business Suits", "Dress Pants"}
                          => packingList[i].quantity <= 3
            /\ tripDays > 3 =>
                   Contains(packingList, "Portable Steamer", "Business Items", 1)
            /\ tripDays <= 3 =>
                   Lacks(packingList, "Portable Steamer", "Business Items")

\* a business trip of 10 days: the cap of 5 business days applies
C19_Witness ==
    /\ pc = "generated"
    /\ tripDays = 10
    /\ HasBusinessActivity
    /\ Contains(packingList, "Dress Shirts", "Business Attire", 5)
    /\ Contains(packingList, "Business Suits", "Business Attire", 3)
    /\ Contains(packingList, "Portable Steamer", "Business Items", 1)

\* the activities of the state, taken together, hold the given keyword (the
\* activity strings of the model, read letter by letter)
HasKeyword(keyword) ==
    \E i \in 1..Len(activities) :
        activities[i] \in
            CASE keyword = "beach"    -> {"Beach day"}
              [] keyword = "swim"     -> {"SWIMMING and hiking"}
              [] keyword = "hik"      -> {"SWIMMING and hiking"}
              [] keyword = "business" -> {"Business golf"}
              [] keyword = "golf"     -> {"Business golf"}
              [] keyword = "gym"      -> {"Gym WORKOUT"}
              [] keyword = "workout"  -> {"Gym WORKOUT"}

\* C20: every keyword of the vocabulary (beach, swim, hike/hiking, business,
\* golf, gym, workout) is recognised case-insensitively: an activity that
\* holds the keyword in any letter case puts that keyword's items on the
\* list (for gym and workout the items of lines 341-349), and one activity
\* string with several keywords triggers every matching block.
C20_Vocabulary ==
    pc = "generated" =>
        /\ (HasKeyword("beach") \/ HasKeyword("swim")) =>
               /\ Contains(packingList, "Beach Towel", "Accessories", 1)
               /\ Contains(packingList, "Beach Bag", "Accessories", 1)
        /\ HasKeyword("hik") =>
               /\ Contains(packingList, "Hiking Boots", "Footwear", 1)
               /\ Contains(packingList, "First Aid Kit", "Safety", 1)
        /\ HasKeyword("business") =>
               /\ Contains(packingList, "Dress Shoes", "Footwear", 1)
               /\ Contains(packingList, "Professional Accessories",
                           "Business Items", 1)
        /\ HasKeyword("golf") =>
               /\ Contains(packingList, "Golf Shoes", "Footwear", 1)
               /\ Contains(packingList, "Golf Glove", "Equipment", 1)
        /\ (HasKeyword("gym") \/ HasKeyword("workout")) =>
               /\ Contains(packingList, "Athletic Shoes", "Footwear", 1)
               /\ Contains(packingList, "Gym Towel", "Athletic Wear", 1)
               /\ Contains(packingList, "Workout Shirts", "Athletic Wear",
                           CeilDiv(tripDays, 2))

-----------------------------------------------------------------------------
(* C14, C15, C17: the wizard (Spec)                                        *)

\* C14: every item of a packing list that the application produces and
\* shows at step 4 has an integer quantity >= 1, in every state the wizard
\* can reach (step 1 accepts any non-empty start and end date).
C14_QuantitiesPositive ==
    currentStep = 4 =>
        \A i \in 1..Len(packingList) : packingList[i].quantity >= 1

\* C15: when the end date is before the start date, the duration is 0 for
\* an end one day before the start and -(k - 1) for an end k days before
\* it, and no event handler that uses the duration ends with an exception.
C15_ReversedDatesNoError ==
    (startDate # NoDate /\ endDate # NoDate /\ endDate < startDate) =>
        /\ TripDays(startDate, endDate, tz) = -((startDate - endDate) - 1)
        /\ thrown = "none"

\* C17: the packing list is rebuilt from scratch on every generation: after
\* any sequence of wizard actions, whenever currentStep = 4 the stored
\* packingList is the merge of the items generated for the current dates,
\* the current weatherData and the current activities.
C17_RebuiltFromScratch ==
    currentStep = 4 =>
        /\ weatherData # NoData
        /\ packingList =
               Merge(GenerateItems(TripDays(startDate, endDate, tz),
                                   AnalyzeWeather(weatherData[1]),
                                   activities))

\* step 4 for the second time, now without activities and for a trip of
\* more than one day
C17_Witness ==
    /\ currentStep = 4
    /\ generations = 2
    /\ activities = <<>>
    /\ endDate > startDate
    /\ Lacks(packingList, "Swimsuit", "Clothing")
    /\ Contains(packingList, "Underwear", "Clothing", endDate - startDate + 2)

-----------------------------------------------------------------------------
(* C21..C24: the wizard as wired (Spec, and SpecSearch for C23)            *)

\* C21: the forecast handed to analyzeWeather is non-empty and has one
\* entry per trip day: whenever the wizard is at step 3 or 4, weatherData is
\* not null and its length is the tripDays of the current start and end
\* dates, which is at least 1, for every pair of dates step 1 accepts.
C21_ForecastPerTripDay ==
    currentStep \in {3, 4} =>
        /\ weatherData # NoData
        /\ Len(weatherData[1]) = TripDays(startDate, endDate, tz)
        /\ Len(weatherData[1]) >= 1

\* the forecasts generateWeatherData can store for the dates of the next
\* state
FreshForecasts ==
    {Loaded(mockWeather) :
         mockWeather \in MockWeather(TripDays(startDate', endDate', tz'))}

\* a step of handleNextStep: one of its first two branches, or a call of
\* generatePackingList at step 3
NextClicked ==
    \/ NextFromDetails
    \/ NextFromActivities
    \/ (currentStep = 3 /\ generations' = generations + 1)

\* C22: under the actions the UI offers (Next at steps 1-3, Back at steps
\* 2-4) currentStep stays in {1, 2, 3, 4}; Next from step 1 advances only
\* when destination, startDate and endDate are all non-empty; each Next
\* advances by exactly one step and each Back goes back by exactly one
\* step; every arrival at step 3 from step 2 stores a forecast of
\* generateWeatherData and every arrival at step 4 stores the list of
\* generatePackingList.
C22_StepSafety ==
    [][ /\ currentStep \in 1..4 /\ currentStep' \in 1..4
        /\ (currentStep = 1 /\ currentStep' # 1) =>
               (destination # "" /\ startDate # NoDate /\ endDate # NoDate)
        /\ NextClicked => currentStep' = currentStep + 1
        /\ HandleBackStep => currentStep' = currentStep - 1
        /\ currentStep' > currentStep => NextClicked
        /\ currentStep' < currentStep => HandleBackStep
        /\ (currentStep = 2 /\ currentStep' = 3) => weatherData' \in FreshForecasts
        /\ (currentStep = 3 /\ currentStep' = 4) =>
               /\ generations' = generations + 1
               /\ packingList' =
                      Merge(GenerateItems(TripDays(startDate', endDate', tz'),
                                          AnalyzeWeather(weatherData'[1]),
                                          activities'))
      ]_vars

\* the names of the items pushed only under isHot or only under isCold
HotOrColdGated ==
    {"Breathable T-shirts", "Lightweight Shorts", "Sun Protection Shirt",
     "Extra Sunscreen", "After-Sun Care", "Golf Hat/Visor", "Golf Towel",
     "Winter Coat", "Warm Hat", "Gloves", "Scarf", "Thermal Socks",
     "Warm Base Layer Set"}

\* the names of the items pushed under isMild and under isCool
MildAndCoolItems ==
    {"Casual Shirts", "Light Sweater", "Comfortable Pants",
     "Long Sleeve Shirts", "Light Jacket", "Warm Sweater"}

NamesOf(list) == {list[i].name : i \in 1..Len(list)}

\* C24: in the application as wired the forecast comes from
\* generateWeatherData, whose days have high in 65..79, low in 45..59 and
\* conditions in {Sunny, Partly Cloudy, Cloudy, Light Rain}; so for every
\* packing list reached at step 4 with tripDays >= 1, isMild and isCool are
\* true and isHot and isCold are false, and the list has Casual Shirts,
\* Light Sweater, Comfortable Pants, Long Sleeve Shirts, Light Jacket and
\* Warm Sweater and no Hot-gated or Cold-gated item.
C24_AsWiredWeather ==
    /\ weatherData # NoData =>
           \A d \in 1..Len(Forecast) :
               /\ Forecast[d].high \in 65..79
               /\ Forecast[d].low \in 45..59
               /\ Forecast[d].conditions \in
                      {"Sunny", "Partly Cloudy", "Cloudy", "Light Rain"}
    /\ (currentStep = 4 /\ tripDays >= 1) =>
           /\ weather.isMild /\ weather.isCool
           /\ ~weather.isHot /\ ~weather.isCold
           /\ MildAndCoolItems \subseteq NamesOf(packingList)
           /\ HotOrColdGated \cap NamesOf(packingList) = {}

\* a list at step 4 for three of the warmest days with the coldest nights
\* and a beach and golf activity
C24_Witness ==
    /\ currentStep = 4
    /\ tripDays = 3
    /\ \A d \in 1..Len(Forecast) : Forecast[d].high = 79 /\ Forecast[d].low = 45
    /\ activities = <<"Beach golf">>
    /\ weather.isMild /\ weather.isCool
    /\ Contains(packingList, "Golf Shoes", "Footwear", 1)
    /\ Contains(packingList, "Swimsuit", "Clothing", 1)
    /\ Contains(packingList, "Casual Shirts", "Clothing", 3)

-----------------------------------------------------------------------------
(* C23: the suggestions once the search has settled (SpecSearch)           *)

\* no timer is pending and no city search is in flight
SearchSettled == timeoutRef = NoTimer /\ searches = <<>>

\* C23: for any sequence of destination edits, once every scheduled timer
\* and every city search in flight has finished, the stored suggestions are
\* the result of the search for the text typed last if it has two
\* characters or more (the place names of the answer, or none if the search
\* failed), and they are empty if that text is shorter.
C23_SuggestionsOfLatestText ==
    SearchSettled =>
        IF Len(typed) >= 2
        THEN suggestions \in {SearchCities(typed, ok) : ok \in BOOLEAN}
        ELSE suggestions = <<>>

=============================================================================
